---- MODULE Spec2Model ----
(***************************************************************************)
(* A model of the forward-proxy bridge of aws-wrapper/proxy_bridge.py:      *)
(* the proxy resolver (resolve_proxy), the authentication provider          *)
(* (get_kerberos_token), the connection handler                             *)
(* (RobustBridge.handle_request) run by the single-threaded                 *)
(* HTTPServer.serve_forever loop, and the relay engine                      *)
(* (RobustBridge._relay).                                                   *)
(*                                                                          *)
(* Strings are sequences of tokens ("http://", a host name, ":", a port     *)
(* numeral, ";"), so that split, replace, partition and int are computed    *)
(* as the code computes them.  A NULL/None/"" value is the empty sequence:  *)
(* the code only ever tests such values for truthiness.                     *)
(***************************************************************************)
EXTENDS Integers, Sequences, FiniteSets, TLC

\* ------------------------------------------------------------------ bounds
MaxSessions == 2
MaxClientBytes == 1
MaxUpstreamBytes == 1
\* requests a client sends on one connection
MaxRequests == 2

\* threads that call a wrapped method of one BaseRateLimitedAWSClient
NumThreads == 3
\* the client's constructor arguments
max_concurrent_requests == 2
max_retries == 2

\* pipelines given to run_pipelines
NumPipelines == 2
\* status queries one poll_pipeline_status makes
MaxPolls == 2

\* ------------------------------------------------------- program constants
SEC_E_OK == 0
SEC_I_CONTINUE_NEEDED == 590610
DefaultProxyPort == 8080
DefaultHttpPort == 80
RelayBufSize == 16384
ReplyBufSize == 4096

\* ---------------------------------------------------------- string helpers
Truthy(s) == s # <<>>

\* The index of the first occurrence of token t in s, 0 when there is none.
IndexOf(s, t) ==
    IF \E i \in 1..Len(s) : s[i] = t
    THEN CHOOSE i \in 1..Len(s) : s[i] = t /\ \A j \in 1..(i - 1) : s[j] # t
    ELSE 0

\* s.split(sep)[0]
SplitFirst(s, sep) ==
    IF IndexOf(s, sep) = 0 THEN s ELSE SubSeq(s, 1, IndexOf(s, sep) - 1)

\* s.replace(old, "")
Remove(s, old) == SelectSeq(s, LAMBDA t : t # old)

\* s.partition(sep): <<head, tail>> (the separator itself is dropped by the callers)
Partition(s, sep) ==
    IF IndexOf(s, sep) = 0 THEN <<s, <<>>>>
    ELSE <<SubSeq(s, 1, IndexOf(s, sep) - 1), SubSeq(s, IndexOf(s, sep) + 1, Len(s))>>

\* int(s) on a string: defined on a single numeral, ValueError otherwise.
Numerals == {"0", "80", "443", "8080"}
IsNumeral(s) == Len(s) = 1 /\ s[1] \in Numerals
NumeralValue(t) ==
    CASE t = "0" -> 0 [] t = "80" -> 80 [] t = "443" -> 443 [] t = "8080" -> 8080

\* A port value is a Python str or a Python int: int() accepts both.
PStr(s) == [str |-> s]
PInt(n) == [int |-> n]
IntRaises(v) == "str" \in DOMAIN v /\ ~IsNumeral(v.str)
IntOf(v) == IF "int" \in DOMAIN v THEN v.int ELSE NumeralValue(v.str[1])

Schemes == {"http://", "https://"}
StartsWithHttp(s) == Len(s) > 0 /\ s[1] \in Schemes

\* urlparse(u).hostname and urlparse(u).port of scheme://host[:port][/path]
UrlAuthority(u) ==
    LET rest == IF StartsWithHttp(u) THEN Tail(u) ELSE <<>>
    IN  SplitFirst(rest, "/")
UrlHostname(u) == Partition(UrlAuthority(u), ":")[1]
UrlPort(u) ==
    LET p == Partition(UrlAuthority(u), ":")[2]
    IN  IF IsNumeral(p) THEN NumeralValue(p[1]) ELSE 0

\* ------------------------------------------------------- resolve_proxy
DIRECT == <<"DIRECT">>

\* WINHTTP_CURRENT_USER_IE_PROXY_CONFIG as filled in by
\* WinHttpGetIEProxyConfigForCurrentUser (all zero when the query fails).
ProxyStrings ==
    { <<>>,
      <<"p", ":", "8080">>,
      <<"http://", "p", ":", "8080">>,
      <<"p">>,
      <<"p", ":", "abc">>,
      <<"p", ":", "0">>,
      <<"p", ":", "8080", ";", "q", ":", "8080">> }
IeConfigs ==
    [lpszAutoConfigUrl : {<<>>, <<"http://", "pac", "/", "proxy.pac">>},
     fAutoDetect : BOOLEAN,
     lpszProxy : ProxyStrings]
\* options.dwFlags (lines 82 and 85)
WINHTTP_AUTOPROXY_AUTO_DETECT == 1
WINHTTP_AUTOPROXY_CONFIG_URL == 2
AutoProxyFlags == {WINHTTP_AUTOPROXY_AUTO_DETECT, WINHTTP_AUTOPROXY_CONFIG_URL}
\* What WinHttpGetProxyForUrl does: its BOOL result and the WINHTTP_PROXY_INFO it fills.
ProxyForUrlResults == [ok : BOOLEAN, lpszProxy : ProxyStrings]
\* WinHttpGetProxyForUrl for the target URL, as a function of options.dwFlags:
\* evaluating the PAC file and WPAD discovery need not agree.
ProxyForUrl == [AutoProxyFlags -> ProxyForUrlResults]

NormalizeUrl(target_url) ==
    IF ~StartsWithHttp(target_url) THEN <<"https://">> \o target_url ELSE target_url

\* lines 91-94
AutoProxyAnswer(info) ==
    IF info.ok
    THEN IF Truthy(info.lpszProxy) THEN SplitFirst(info.lpszProxy, ";") ELSE DIRECT
    ELSE DIRECT

resolve_proxy_NoStaticCheck(target_url, ie_config, WinHttpGetProxyForUrl) ==
    IF Truthy(ie_config.lpszAutoConfigUrl)
    THEN AutoProxyAnswer(WinHttpGetProxyForUrl[WINHTTP_AUTOPROXY_CONFIG_URL])
    ELSE IF ie_config.fAutoDetect
         THEN AutoProxyAnswer(WinHttpGetProxyForUrl[WINHTTP_AUTOPROXY_AUTO_DETECT])
         ELSE SplitFirst(ie_config.lpszProxy, ";")
resolve_proxy_WpadFirst(target_url, ie_config, WinHttpGetProxyForUrl) ==
    IF ie_config.fAutoDetect
    THEN AutoProxyAnswer(WinHttpGetProxyForUrl[WINHTTP_AUTOPROXY_AUTO_DETECT])
    ELSE IF Truthy(ie_config.lpszAutoConfigUrl)
         THEN AutoProxyAnswer(WinHttpGetProxyForUrl[WINHTTP_AUTOPROXY_CONFIG_URL])
         ELSE IF Truthy(ie_config.lpszProxy)
              THEN SplitFirst(ie_config.lpszProxy, ";") ELSE DIRECT
resolve_proxy(target_url, ie_config, WinHttpGetProxyForUrl) ==
    IF Truthy(ie_config.lpszAutoConfigUrl)
    THEN AutoProxyAnswer(WinHttpGetProxyForUrl[WINHTTP_AUTOPROXY_CONFIG_URL])
    ELSE IF ie_config.fAutoDetect
         THEN AutoProxyAnswer(WinHttpGetProxyForUrl[WINHTTP_AUTOPROXY_AUTO_DETECT])
         ELSE IF Truthy(ie_config.lpszProxy)
              THEN SplitFirst(ie_config.lpszProxy, ";") ELSE DIRECT

\* ---------------------------------------------------- get_kerberos_token
\* InitializeSecurityContextW's status: success, continue, or a provider fault
\* (SEC_E_TARGET_UNKNOWN, SEC_E_NO_CREDENTIALS).
SspiStatuses == {SEC_E_OK, SEC_I_CONTINUE_NEEDED, -2146893053, -2146893042}
\* The token InitializeSecurityContextW writes into out_buffer for the
\* security context initialised by the handler of the n-th connection: a
\* context carries its own replay-protection state, so two contexts never
\* yield the same token.
TokenNames == <<"t1", "t2", "t3", "t4">>
TokenOf(n) == TokenNames[n]
Tokens == {TokenNames[i] : i \in 1..Len(TokenNames)}

\* lines 43-51: cred_handle and ctx_handle are locals created by the call, so
\* the call made for the n-th connection initialises a context of its own.
ctx_handle_Reused(n) == 1
ctx_handle(n) == n

get_kerberos_token(status, token) ==
    IF status \in {SEC_E_OK, SEC_I_CONTINUE_NEEDED} THEN <<"Negotiate", token>> ELSE <<>>

\* ------------------------------------------------------------ requests
\* str.lower() of the header names in use
Lower(name) ==
    CASE name = "Host" -> "host"
      [] name = "Proxy-Authorization" -> "proxy-authorization"
      [] name = "PROXY-AUTHORIZATION" -> "proxy-authorization"
      [] name = "Proxy-Connection" -> "proxy-connection"
      [] OTHER -> name

\* The requests a client sends: the request line's method and target and the
\* header list, as BaseHTTPRequestHandler.parse_request leaves them in
\* self.command, self.path and self.headers.
Requests ==
    { [command |-> "CONNECT", request_version |-> "HTTP/1.1", path |-> <<"h", ":", "443">>, headers |-> <<>>],
      [command |-> "CONNECT", request_version |-> "HTTP/1.1", path |-> <<"h">>, headers |-> <<>>],
      [command |-> "GET", request_version |-> "HTTP/1.1", path |-> <<"http://", "h", "/">>,
       headers |-> << <<"Host", <<"h">> >>,
                      <<"Connection", <<"keep-alive">> >>,
                      <<"Proxy-Authorization", <<"Basic", "c">> >>,
                      <<"Proxy-Connection", <<"keep-alive">> >> >>],
      [command |-> "GET", request_version |-> "HTTP/1.1", path |-> <<"http://", "h", ":", "8080", "/">>,
       headers |-> << <<"PROXY-AUTHORIZATION", <<"Basic", "c">> >>,
                      <<"Host", <<"h">> >> >>],
      [command |-> "GET", request_version |-> "HTTP/1.1", path |-> <<"/", "x">>,
       headers |-> << <<"Host", <<"h">> >> >>],
      [command |-> "POST", request_version |-> "HTTP/1.1", path |-> <<"http://", "h", "/">>,
       headers |-> << <<"Host", <<"h">> >>, <<"Content-Length", <<"1">> >> >>] }
NoRequest == [command |-> "", request_version |-> "", path |-> <<>>, headers |-> <<>>]

\* The handler class takes BaseHTTPRequestHandler's protocol_version (line 100
\* sets none of its own).
protocol_version == "HTTP/1.0"

\* The value of the request's Connection header, <<>> if it has none.
ConnectionHeader(req) ==
    IF \E i \in 1..Len(req.headers) : req.headers[i][1] = "Connection"
    THEN req.headers[CHOOSE i \in 1..Len(req.headers) : req.headers[i][1] = "Connection"][2]
    ELSE <<>>

\* BaseHTTPRequestHandler.parse_request's close_connection: the connection is
\* kept for a further request only when the handler speaks HTTP/1.1 and the
\* request asks for it, by its version or by Connection: keep-alive.
ParseCloseConnection(req, version) ==
    IF ConnectionHeader(req) = <<"close">> THEN TRUE
    ELSE IF ConnectionHeader(req) = <<"keep-alive">> /\ version = "HTTP/1.1" THEN FALSE
    ELSE ~(req.request_version = "HTTP/1.1" /\ version = "HTTP/1.1")
close_connection_Http11(req) == ParseCloseConnection(req, "HTTP/1.1")
close_connection(req) == ParseCloseConnection(req, protocol_version)

\* line 102
TargetUrl(req) ==
    IF req.command # "CONNECT" THEN req.path ELSE <<"https://">> \o req.path

\* lines 108-112: the address dialed on a DIRECT route
DirectAddress(req) ==
    IF req.command = "CONNECT"
    THEN <<Partition(req.path, ":")[1], PStr(Partition(req.path, ":")[2])>>
    ELSE <<UrlHostname(TargetUrl(req)),
           PInt(IF UrlPort(TargetUrl(req)) # 0 THEN UrlPort(TargetUrl(req)) ELSE DefaultHttpPort)>>

\* line 115
StripScheme(res) == Remove(Remove(res, "http://"), "https://")

\* lines 116-117 (the int() of line 117 raises on a non-numeric port)
ProxyPortRaises(res) ==
    LET port == Partition(StripScheme(res), ":")[2]
    IN  Truthy(port) /\ ~IsNumeral(port)
ProxyAddress(res) ==
    LET parts == Partition(StripScheme(res), ":")
    IN  <<parts[1],
          PInt(IF Truthy(parts[2]) THEN NumeralValue(parts[2][1]) ELSE DefaultProxyPort)>>

\* lines 143-145: the client's headers that are forwarded
FilterHeaders_NoLower(headers) ==
    SelectSeq(headers,
              LAMBDA h : h[1] \notin {"proxy-authorization", "proxy-connection"})
FilterHeaders(headers) ==
    SelectSeq(headers,
              LAMBDA h : Lower(h[1]) \notin {"proxy-authorization", "proxy-connection"})

\* lines 128-129: the CONNECT request sent to the upstream proxy
ConnectRequest_AlwaysHeader(req, a) ==
    [method |-> "CONNECT", target |-> req.path,
     headers |-> << <<"Host", req.path>>, <<"Proxy-Authorization", a>> >>]
ConnectRequest(req, a) ==
    [method |-> "CONNECT", target |-> req.path,
     headers |-> << <<"Host", req.path>> >>
                    \o (IF Truthy(a) THEN << <<"Proxy-Authorization", a>> >> ELSE <<>>)]

\* lines 142-147: the rewritten request sent upstream
ForwardRequest_KeepClientHeaders(req, a) ==
    [method |-> req.command, target |-> TargetUrl(req),
     headers |-> req.headers
                    \o (IF Truthy(a) THEN << <<"Proxy-Authorization", a>> >> ELSE <<>>)]
ForwardRequest(req, a) ==
    [method |-> req.command, target |-> TargetUrl(req),
     headers |-> FilterHeaders(req.headers)
                    \o (IF Truthy(a) THEN << <<"Proxy-Authorization", a>> >> ELSE <<>>)]

\* lines 122-141: what follows a successful create_connection
AfterConnect_AlwaysHandshake(command, direct) ==
    IF command = "CONNECT" THEN "auth" ELSE IF direct THEN "forward" ELSE "auth"
AfterConnect(command, direct) ==
    IF command = "CONNECT"
    THEN IF direct THEN "send_200" ELSE "auth"
    ELSE IF direct THEN "forward" ELSE "auth"

\* lines 128-130 and 141-148: what follows get_kerberos_token
AfterAuth_SkipHandshake(command) == IF command = "CONNECT" THEN "send_200" ELSE "forward"
AfterAuth(command) == IF command = "CONNECT" THEN "send_connect" ELSE "forward"

\* line 133: b"200" in resp, on the reply's bytes (digits)
Contains200(resp) ==
    \E i \in 1..(Len(resp) - 2) : resp[i] = 2 /\ resp[i + 1] = 0 /\ resp[i + 2] = 0

\* The replies of an upstream proxy to a CONNECT request, as the digits of the
\* status code followed by the digits of later header or body text.
ProxyReplies == { <<2, 0, 0>>, <<4, 0, 7>>, <<4, 0, 7, 2, 0, 0>> }
StatusOf(reply) == SubSeq(reply, 1, 3)
\* TCP may deliver a reply whole or in segments: the lengths of the first one.
SegmentLengths(reply) == {1, Len(reply)}

\* The n-th byte the client, resp. the upstream, sends through the tunnel.
ClientByte(n) == n
\* What parse_request's readline calls may have read ahead of the header
\* block: nothing, or the first body byte of a request that has a body.
EarlyBody(req) ==
    IF req.command = "POST" /\ MaxClientBytes >= 1
    THEN {<<>>, <<ClientByte(1)>>} ELSE {<<>>}
UpstreamByte(n) == 100 + n
ClientStream(n) == [k \in 1..n |-> ClientByte(k)]
UpstreamStream(n) == [k \in 1..n |-> UpstreamByte(k)]

\* s.recv(bufsize) on the bytes pending in a socket's receive buffer
Min(a, b) == IF a < b THEN a ELSE b
Recv(pending, bufsize) == SubSeq(pending, 1, Min(Len(pending), bufsize))
RecvRest(pending, bufsize) == SubSeq(pending, Min(Len(pending), bufsize) + 1, Len(pending))

\* ================================================================ state
VARIABLES
    backlog,      \* connections waiting in the listening socket's queue
    served,       \* connections accepted so far
    pc,           \* where the server thread is: "accept" is serve_forever's loop
    request,      \* self.command, self.path, self.headers
    rfile,        \* client bytes read ahead into self.rfile's buffer with the headers
    proxy_res,    \* handle_request's locals
    is_direct,
    p_host,
    p_port,
    auth,
    resp,
    connection,   \* the client socket: "none", "open", "closed"
    upstream,     \* the upstream socket: "none", "open", "closed"
    dialed,       \* the address create_connection was called with, <<>> if not called
    authCalls,    \* calls of get_kerberos_token in this session
    upReqs,       \* the requests the handler wrote to the upstream socket
    clResp,       \* the status codes of the responses the handler wrote to the client
    escaped,      \* an exception left handle_request
    r,            \* _relay: the sockets select returned that are not yet served
    relayExit,    \* how _relay ended: "none", "eof", "timeout", "error"
    cIn,          \* bytes the client sent that the bridge has not read yet
    cSent,        \* number of bytes the client sent
    cEof,         \* the client has shut down its sending side
    uIn,          \* bytes the upstream sent that the bridge has not read yet
    uSent,        \* number of tunnel bytes the upstream sent
    uEof,         \* the upstream has shut down its sending side
    uReset,       \* the upstream has reset the connection
    reply,        \* the upstream proxy's reply to the CONNECT request, <<>> if none
    replyRest,    \* the bytes of that reply the proxy has not sent yet
    upData,       \* the bytes _relay wrote to the upstream socket
    clData,       \* the bytes _relay wrote to the client socket
    isc,          \* the statuses InitializeSecurityContextW returned in this session
    handled,      \* requests dispatched to handle_request on this connection
    resolveCalls, \* calls of resolve_proxy on this connection
    opened,       \* upstream sockets create_connection opened on this connection
    dials,        \* calls of create_connection on this connection
    rs,           \* resolve_proxy called on its own: inputs and result
    semaphore,    \* BaseRateLimitedAWSClient.semaphore: the permits left
    rate_lock,    \* _rate_lock: the thread that holds it, 0 if none
    wpc,          \* per thread: where its _wrap_call is
    attempt,      \* per thread: the loop variable of _wrap_call
    permits,      \* per thread: permits acquired and not yet released
    trace,        \* per thread: how each invocation of the wrapped function ended
    outcome,      \* per thread: how its _wrap_call ended, <<>> while it has not
    mpc,          \* where the caller of run_pipelines / poll_pipeline_status is
    tpc,          \* per pipeline: its trigger_pipeline future
    tret,         \* per pipeline: the execution id trigger_pipeline returned
    execution_map, \* run_pipelines' dictionary name -> execution id
    abort_event,  \* threading.Event: set or not
    ppc,          \* per pipeline: where its poll_pipeline_status is
    hist,         \* per pipeline: what its status queries reported, in order
    late,         \* per pipeline: status queries made while the event was set
    pret,         \* per pipeline: the status its poll returned, "" while it has not
    results       \* run_pipelines' dictionary name -> status

serverVars == <<backlog, served>>
handlerVars == <<request, rfile, proxy_res, is_direct, p_host, p_port, auth, resp>>
socketVars == <<connection, upstream, dialed>>
historyVars == <<authCalls, upReqs, clResp, escaped>>
relayVars == <<r, relayExit, upData, clData>>
clientVars == <<cIn, cSent, cEof>>
peerVars == <<uIn, uSent, uEof, uReset, reply, replyRest>>
callVars == <<isc, handled, resolveCalls, opened, dials>>
wrapVars == <<semaphore, rate_lock, wpc, attempt, permits, trace, outcome>>
\* the state of the modules beside the proxy bridge
pipeVars == <<mpc, tpc, tret, execution_map, abort_event, ppc, hist, late, pret, results>>
libVars == <<wrapVars, pipeVars>>
vars == <<serverVars, pc, handlerVars, socketVars, historyVars, relayVars,
          clientVars, peerVars, callVars, rs, libVars>>

NoResolve == [target_url |-> <<>>, ie_config |-> <<>>, info |-> <<>>,
              result |-> <<>>, called |-> FALSE]

\* A session's variables before its request is handled.
FreshSession ==
    /\ proxy_res = <<>> /\ is_direct = FALSE /\ p_host = <<>> /\ p_port = PInt(0)
    /\ auth = <<>> /\ resp = <<>>
    /\ upstream = "none" /\ dialed = <<>>
    /\ authCalls = 0 /\ upReqs = <<>> /\ clResp = <<>> /\ escaped = FALSE
    /\ r = <<>> /\ relayExit = "none" /\ upData = <<>> /\ clData = <<>>
    /\ cIn = <<>> /\ cSent = 0 /\ cEof = FALSE
    /\ uIn = <<>> /\ uSent = 0 /\ uEof = FALSE /\ uReset = FALSE /\ reply = <<>>
    /\ replyRest = <<>>
    /\ isc = <<>> /\ resolveCalls = 0 /\ opened = 0 /\ dials = 0

\* A new handler instance and a new connection: nothing is kept of the
\* session before.
NewSession ==
    /\ proxy_res' = <<>> /\ is_direct' = FALSE /\ p_host' = <<>> /\ p_port' = PInt(0)
    /\ auth' = <<>> /\ resp' = <<>>
    /\ upstream' = "none" /\ dialed' = <<>>
    /\ authCalls' = 0 /\ upReqs' = <<>> /\ clResp' = <<>> /\ escaped' = FALSE
    /\ r' = <<>> /\ relayExit' = "none" /\ upData' = <<>> /\ clData' = <<>>
    /\ cIn' = <<>> /\ cEof' = FALSE
    /\ uIn' = <<>> /\ uSent' = 0 /\ uEof' = FALSE /\ uReset' = FALSE /\ reply' = <<>>
    /\ replyRest' = <<>>
    /\ isc' = <<>> /\ resolveCalls' = 0 /\ opened' = 0 /\ dials' = 0

\* BaseRateLimitedAWSClient.__init__ (src/client.py lines 26-33), before any
\* wrapped method is called.
Threads == 1..NumThreads
WrapInit ==
    /\ semaphore = max_concurrent_requests
    /\ rate_lock = 0
    /\ wpc = [t \in Threads |-> "idle"]
    /\ attempt = [t \in Threads |-> 0]
    /\ permits = [t \in Threads |-> 0]
    /\ trace = [t \in Threads |-> <<>>]
    /\ outcome = [t \in Threads |-> <<>>]

\* ------------------------------------------------- src/merged_codepipeline.py
\* run_pipelines and RateLimitedCodePipelineClient.  A pipeline is named by its
\* place in pipeline_names; the names are distinct.  The rate-limited boto3
\* calls are taken by their outcome: start_pipeline_execution yields an
\* execution id or fails, get_pipeline_execution_status yields a status or
\* raises.
PipelineNames == 1..NumPipelines
NoId == <<>>
ExecutionId(p) == <<p>>
TerminalStatuses == {"Succeeded", "Failed", "Stopped"}
QueryResults == TerminalStatuses \cup {"InProgress", "Exception"}

PipeInit ==
    /\ mpc = "idle"
    /\ tpc = [p \in PipelineNames |-> "idle"]
    /\ tret = [p \in PipelineNames |-> NoId]
    /\ execution_map = <<>>
    /\ abort_event = FALSE
    /\ ppc = [p \in PipelineNames |-> "none"]
    /\ hist = [p \in PipelineNames |-> <<>>]
    /\ late = [p \in PipelineNames |-> 0]
    /\ pret = [p \in PipelineNames |-> ""]
    /\ results = <<>>

Init ==
    /\ backlog = 0 /\ served = 0 /\ pc = "accept"
    /\ request = NoRequest /\ rfile = <<>> /\ connection = "none" /\ handled = 0
    /\ FreshSession
    /\ rs = NoResolve
    /\ WrapInit
    /\ PipeInit

RelayPcs == {"select", "recv"}

\* ------------------------------------------------------------ the clients
\* A client connects to the listening socket.
ClientConnect ==
    /\ backlog + served < MaxSessions
    /\ backlog' = backlog + 1
    /\ UNCHANGED <<callVars, served, pc, handlerVars, socketVars, historyVars, relayVars,
                   clientVars, peerVars, rs, libVars>>

\* The client of the session sends one more byte through the tunnel.
ClientSend ==
    /\ pc \in RelayPcs /\ ~cEof /\ cSent < MaxClientBytes
    /\ cSent' = cSent + 1
    /\ cIn' = Append(cIn, ClientByte(cSent + 1))
    /\ UNCHANGED <<callVars, serverVars, pc, handlerVars, socketVars, historyVars, relayVars,
                   cEof, peerVars, rs, libVars>>

\* The client shuts down its sending side.
ClientEof ==
    /\ pc \in RelayPcs /\ ~cEof
    /\ cEof' = TRUE
    /\ UNCHANGED <<callVars, serverVars, pc, handlerVars, socketVars, historyVars, relayVars,
                   cIn, cSent, peerVars, rs, libVars>>

\* ------------------------------------------------------------ the upstream
\* The upstream proxy answers the CONNECT request it received.
ProxyReply ==
    /\ pc = "recv_reply" /\ upstream = "open" /\ ~uEof /\ ~uReset /\ reply = <<>>
    /\ \E rep \in ProxyReplies : \E k \in SegmentLengths(rep) :
          /\ reply' = rep
          /\ uIn' = uIn \o SubSeq(rep, 1, k)
          /\ replyRest' = SubSeq(rep, k + 1, Len(rep))
    /\ UNCHANGED <<callVars, serverVars, pc, handlerVars, socketVars, historyVars, relayVars,
                   clientVars, uSent, uEof, uReset, rs, libVars>>

\* The rest of a reply that was sent in two segments arrives.
ProxyReplyRest ==
    /\ pc = "recv_reply" /\ upstream = "open" /\ ~uEof /\ ~uReset /\ replyRest # <<>>
    /\ uIn' = uIn \o replyRest
    /\ replyRest' = <<>>
    /\ UNCHANGED <<callVars, serverVars, pc, handlerVars, socketVars, historyVars, relayVars,
                   clientVars, uSent, uEof, uReset, reply, rs, libVars>>

\* The upstream sends one more byte through the tunnel; the first one may
\* follow the CONNECT reply before the bridge has read that reply.
UpstreamSend ==
    /\ \/ pc \in RelayPcs
       \/ pc = "recv_reply" /\ reply # <<>> /\ replyRest = <<>>
    /\ upstream = "open" /\ ~uEof /\ ~uReset
    /\ uSent < MaxUpstreamBytes
    /\ uSent' = uSent + 1
    /\ uIn' = Append(uIn, UpstreamByte(uSent + 1))
    /\ UNCHANGED <<callVars, serverVars, pc, handlerVars, socketVars, historyVars, relayVars,
                   clientVars, uEof, uReset, reply, replyRest, rs, libVars>>

UpstreamEof ==
    /\ upstream = "open" /\ ~uEof /\ ~uReset
    /\ pc \in RelayPcs \cup {"recv_reply"}
    /\ uEof' = TRUE
    /\ UNCHANGED <<callVars, serverVars, pc, handlerVars, socketVars, historyVars, relayVars,
                   clientVars, uIn, uSent, uReset, reply, replyRest, rs, libVars>>

\* The upstream resets the connection: every later recv or sendall on the
\* upstream socket raises.
UpstreamReset ==
    /\ upstream = "open" /\ ~uReset
    /\ pc # "accept"
    /\ uReset' = TRUE
    /\ UNCHANGED <<callVars, serverVars, pc, handlerVars, socketVars, historyVars, relayVars,
                   clientVars, uIn, uSent, uEof, reply, replyRest, rs, libVars>>

\* ============================================================ the server
\* HTTPServer is socketserver.TCPServer without a threading mix-in:
\* serve_forever accepts a connection and runs its handler to completion on
\* the same thread before it accepts the next one (line 168).
ServerCanAccept == pc = "accept"

\* serve_forever accepts a connection; BaseHTTPRequestHandler parses the
\* request and dispatches it to handle_request (line 164).
Accept ==
    /\ ServerCanAccept /\ backlog > 0
    /\ backlog' = backlog - 1
    /\ served' = served + 1
    /\ \E req \in Requests : \E body \in EarlyBody(req) :
          /\ request' = req
          /\ rfile' = body
          /\ cSent' = Len(body)
    /\ connection' = "open"
    /\ handled' = 1
    /\ NewSession
    /\ pc' = "resolve"
    /\ UNCHANGED <<rs, libVars>>

\* lines 102-103
Resolve ==
    /\ pc = "resolve"
    /\ \E ie_config \in IeConfigs, info \in ProxyForUrl :
          proxy_res' = resolve_proxy(NormalizeUrl(TargetUrl(request)), ie_config, info)
    /\ resolveCalls' = resolveCalls + 1
    /\ pc' = "parse"
    /\ UNCHANGED <<isc, handled, opened, dials, serverVars, request, rfile, is_direct, p_host, p_port, auth, resp,
                   socketVars, historyVars, relayVars, clientVars, peerVars, rs, libVars>>

\* lines 106-117.  The int() of line 117 is outside the try block of line
\* 119: its ValueError leaves handle_request.
ParseResult ==
    /\ pc = "parse"
    /\ IF proxy_res = DIRECT
       THEN /\ is_direct' = TRUE
            /\ p_host' = DirectAddress(request)[1]
            /\ p_port' = DirectAddress(request)[2]
            /\ pc' = "connect"
            /\ UNCHANGED <<proxy_res, escaped>>
       ELSE /\ is_direct' = FALSE
            /\ proxy_res' = StripScheme(proxy_res)
            /\ IF ProxyPortRaises(proxy_res)
               THEN /\ p_host' = Partition(StripScheme(proxy_res), ":")[1]
                    /\ p_port' = PStr(Partition(StripScheme(proxy_res), ":")[2])
                    /\ escaped' = TRUE
                    /\ pc' = "return"
               ELSE /\ p_host' = ProxyAddress(proxy_res)[1]
                    /\ p_port' = ProxyAddress(proxy_res)[2]
                    /\ pc' = "connect"
                    /\ UNCHANGED escaped
    /\ UNCHANGED <<callVars, serverVars, request, rfile, auth, resp, socketVars, authCalls, upReqs,
                   clResp, relayVars, clientVars, peerVars, rs, libVars>>

\* lines 151-152: the except clause answers 502 and handle_request returns.
SendError502 ==
    /\ clResp' = Append(clResp, 502)
    /\ pc' = "return"

\* lines 151-152 after create_connection raised: the handler answers and
\* returns, whatever the number n of attempts so far.
AfterConnectFailure_RetryOnce(n) == IF n < 2 THEN "connect" ELSE "return"
AfterConnectFailure(n) == "return"

\* line 120: int(p_port) raises on a non-numeric port; create_connection
\* succeeds or raises.
Connect ==
    /\ pc = "connect"
    /\ IF IntRaises(p_port)
       THEN /\ SendError502
            /\ UNCHANGED <<socketVars, opened, dials>>
       ELSE \E ok \in BOOLEAN :
            /\ dialed' = <<p_host, IntOf(p_port)>>
            /\ dials' = dials + 1
            /\ IF ok
               THEN /\ upstream' = "open"
                    /\ opened' = opened + 1
                    /\ pc' = AfterConnect(request.command, is_direct)
                    /\ UNCHANGED clResp
               ELSE /\ clResp' = Append(clResp, 502)
                    /\ pc' = AfterConnectFailure(dials + 1)
                    /\ UNCHANGED <<upstream, opened>>
            /\ UNCHANGED connection
    /\ UNCHANGED <<isc, handled, resolveCalls, serverVars, handlerVars, authCalls, upReqs, escaped, relayVars,
                   clientVars, peerVars, rs, libVars>>

\* lines 127 and 141: the call of get_kerberos_token on a route through a proxy
Authenticate ==
    /\ pc = "auth"
    /\ \E status \in SspiStatuses :
          /\ auth' = get_kerberos_token(status, TokenOf(ctx_handle(served)))
          /\ isc' = Append(isc, status)
    /\ authCalls' = authCalls + 1
    /\ pc' = AfterAuth(request.command)
    /\ UNCHANGED <<handled, resolveCalls, opened, dials, serverVars, request, rfile, proxy_res, is_direct, p_host, p_port, resp,
                   socketVars, upReqs, clResp, escaped, relayVars, clientVars,
                   peerVars, rs, libVars>>

\* lines 128-130
SendConnect ==
    /\ pc = "send_connect"
    /\ IF uReset
       THEN SendError502 /\ UNCHANGED upReqs
       ELSE /\ upReqs' = Append(upReqs, ConnectRequest(request, auth))
            /\ pc' = "recv_reply"
            /\ UNCHANGED clResp
    /\ UNCHANGED <<callVars, serverVars, handlerVars, socketVars, authCalls, escaped, relayVars,
                   clientVars, peerVars, rs, libVars>>

\* lines 132-135: recv blocks until the upstream socket is readable
RecvReply ==
    /\ pc = "recv_reply"
    /\ uIn # <<>> \/ uEof \/ uReset
    /\ IF uReset
       THEN SendError502 /\ UNCHANGED <<resp, uIn>>
       ELSE /\ resp' = Recv(uIn, ReplyBufSize)
            /\ uIn' = RecvRest(uIn, ReplyBufSize)
            /\ IF ~Contains200(resp')
               THEN SendError502
               ELSE pc' = "send_200" /\ UNCHANGED clResp
    /\ UNCHANGED <<callVars, serverVars, request, rfile, proxy_res, is_direct, p_host, p_port, auth,
                   socketVars, authCalls, upReqs, escaped, relayVars, clientVars,
                   uSent, uEof, uReset, reply, replyRest, rs, libVars>>

\* lines 124-125 and 136-137, then the call of _relay of line 138
Send200 ==
    /\ pc = "send_200"
    /\ clResp' = Append(clResp, 200)
    /\ pc' = "select"
    /\ UNCHANGED <<callVars, serverVars, handlerVars, socketVars, authCalls, upReqs, escaped,
                   relayVars, clientVars, peerVars, rs, libVars>>

\* lines 142-149
Forward ==
    /\ pc = "forward"
    /\ IF uReset
       THEN SendError502 /\ UNCHANGED upReqs
       ELSE /\ upReqs' = Append(upReqs, ForwardRequest(request, auth))
            /\ pc' = "select"
            /\ UNCHANGED clResp
    /\ UNCHANGED <<callVars, serverVars, handlerVars, socketVars, authCalls, escaped, relayVars,
                   clientVars, peerVars, rs, libVars>>

\* ------------------------------------------------------------- _relay
ClientReadable == cIn # <<>> \/ cEof
UpstreamReadable == uIn # <<>> \/ uEof \/ uReset
\* select.select([client, upstream], [], [], 20)[0]
Select ==
    (IF ClientReadable THEN <<"client">> ELSE <<>>)
        \o (IF UpstreamReadable THEN <<"upstream">> ELSE <<>>)

\* line 157, a socket is readable
RelaySelect ==
    /\ pc = "select"
    /\ Select # <<>>
    /\ r' = Select
    /\ pc' = "recv"
    /\ UNCHANGED <<callVars, serverVars, handlerVars, socketVars, historyVars, relayExit,
                   upData, clData, clientVars, peerVars, rs, libVars>>

\* lines 157-158, no socket became readable within the timeout
RelayTimeout ==
    /\ pc = "select"
    /\ Select = <<>>
    /\ relayExit' = "timeout"
    /\ pc' = "return"
    /\ UNCHANGED <<callVars, serverVars, handlerVars, socketVars, historyVars, r,
                   upData, clData, clientVars, peerVars, rs, libVars>>

\* where the for loop of line 159 goes after a socket of r is served
NextInRound(rest) == IF rest = <<>> THEN "select" ELSE "recv"

\* line 161: a zero-length read returns from _relay
AfterZeroRead_NextSocket(rest) == NextInRound(rest)
AfterZeroRead(rest) == "return"

\* lines 159-162 with s the client socket
RelayFromClient ==
    /\ pc = "recv" /\ Head(r) = "client"
    /\ cIn' = RecvRest(cIn, RelayBufSize)
    /\ IF Recv(cIn, RelayBufSize) = <<>>
       THEN /\ relayExit' = "eof"
            /\ pc' = AfterZeroRead(Tail(r))
            /\ UNCHANGED <<r, upData, clResp>>
       ELSE IF uReset
            THEN /\ relayExit' = "error"
                 /\ SendError502
                 /\ UNCHANGED <<r, upData>>
            ELSE /\ upData' = upData \o Recv(cIn, RelayBufSize)
                 /\ r' = Tail(r)
                 /\ pc' = NextInRound(Tail(r))
                 /\ UNCHANGED <<relayExit, clResp>>
    /\ UNCHANGED <<callVars, serverVars, handlerVars, socketVars, authCalls, upReqs, escaped,
                   clData, cSent, cEof, peerVars, rs, libVars>>

\* lines 159-162 with s the upstream socket
RelayFromUpstream ==
    /\ pc = "recv" /\ Head(r) = "upstream"
    /\ IF uReset
       THEN /\ relayExit' = "error"
            /\ SendError502
            /\ UNCHANGED <<r, clData, uIn>>
       ELSE /\ uIn' = RecvRest(uIn, RelayBufSize)
            /\ IF Recv(uIn, RelayBufSize) = <<>>
               THEN /\ relayExit' = "eof"
                    /\ pc' = AfterZeroRead(Tail(r))
                    /\ UNCHANGED <<r, clData, clResp>>
               ELSE /\ clData' = clData \o Recv(uIn, RelayBufSize)
                    /\ r' = Tail(r)
                    /\ pc' = NextInRound(Tail(r))
                    /\ UNCHANGED <<relayExit, clResp>>
    /\ UNCHANGED <<callVars, serverVars, handlerVars, socketVars, authCalls, upReqs, escaped,
                   upData, clientVars, uSent, uEof, uReset, reply, replyRest, rs, libVars>>

\* handle_request has returned or raised: StreamRequestHandler.finish and
\* TCPServer.shutdown_request close the client socket.  handle_request never
\* closes the upstream socket: the object is a local that is dropped, and
\* whether its descriptor is closed by then is up to the garbage collector.
\* BaseHTTPRequestHandler.handle reads a further request from the connection
\* only while close_connection is false; send_error sets it, and an exception
\* that left the handler ends the connection as well.
Finish ==
    /\ pc = "return"
    /\ IF close_connection(request) \/ escaped \/ (\E i \in 1..Len(clResp) : clResp[i] = 502)
          \/ handled >= MaxRequests
       THEN /\ connection' = "closed"
            /\ upstream' \in (IF upstream = "open" THEN {"open", "closed"} ELSE {upstream})
            /\ pc' = "accept"
            /\ UNCHANGED <<request, handled>>
       ELSE /\ \E req \in Requests : request' = req
            /\ handled' = handled + 1
            /\ pc' = "resolve"
            /\ UNCHANGED <<connection, upstream>>
    /\ UNCHANGED <<isc, resolveCalls, opened, dials, serverVars, rfile, proxy_res, is_direct, p_host,
                   p_port, auth, resp, dialed, historyVars, relayVars,
                   clientVars, peerVars, rs, libVars>>

Next ==
    \/ ClientConnect \/ ClientSend \/ ClientEof
    \/ ProxyReply \/ ProxyReplyRest \/ UpstreamSend \/ UpstreamEof \/ UpstreamReset
    \/ Accept \/ Resolve \/ ParseResult \/ Connect \/ Authenticate
    \/ SendConnect \/ RecvReply \/ Send200 \/ Forward
    \/ RelaySelect \/ RelayTimeout \/ RelayFromClient \/ RelayFromUpstream
    \/ Finish

Spec == Init /\ [][Next]_vars

\* The steps of the server thread.  The thread runs whenever it is not blocked
\* in accept, recv or select; the clients and the upstream owe it nothing.
ServerStep ==
    \/ Accept \/ Resolve \/ ParseResult \/ Connect \/ Authenticate
    \/ SendConnect \/ RecvReply \/ Send200 \/ Forward
    \/ RelaySelect \/ RelayTimeout \/ RelayFromClient \/ RelayFromUpstream
    \/ Finish
FairSpec == Spec /\ WF_vars(ServerStep)

\* ------------------------------------------- resolve_proxy on its own
ResolveTargets == {TargetUrl(req) : req \in Requests} \cup {<<"h", ":", "443">>}

InitResolve ==
    /\ backlog = 0 /\ served = 0 /\ pc = "accept"
    /\ request = NoRequest /\ rfile = <<>> /\ connection = "none" /\ handled = 0
    /\ FreshSession
    /\ rs \in [target_url : ResolveTargets, ie_config : IeConfigs,
               info : ProxyForUrl, result : {<<>>}, called : {FALSE}]
    /\ WrapInit
    /\ PipeInit

ResolveCall ==
    /\ ~rs.called
    /\ rs' = [rs EXCEPT !.result = resolve_proxy(NormalizeUrl(rs.target_url),
                                                 rs.ie_config, rs.info),
                        !.called = TRUE]
    /\ UNCHANGED <<callVars, serverVars, pc, handlerVars, socketVars, historyVars, relayVars,
                   clientVars, peerVars, libVars>>

NextResolve == ResolveCall

SpecResolve == InitResolve /\ [][NextResolve]_vars

\* =========================================== BaseRateLimitedAWSClient
\* src/client.py.  Each thread calls one wrapped method once; the wrapped
\* boto3 method returns, raises ClientError or raises another exception.
FuncResults == {"ok", "ClientError", "Exception"}

bridgeVars == <<serverVars, pc, handlerVars, socketVars, historyVars, relayVars,
                clientVars, peerVars, callVars, rs>>

\* line 53
AttemptsRemain_OffByOne(a) == a < max_retries
AttemptsRemain(a) == a < max_retries - 1

\* lines 60-61: the finally clause runs on every way out of the try block,
\* "return", "raise" or "retry"
FinallyReleases_NotOnRaise(exit) == exit # "raise"
FinallyReleases(exit) == TRUE

\* line 47: the next iteration of the for loop, or its end, where _wrap_call
\* returns None
NextAttempt(a) == IF a < max_retries THEN "acquire" ELSE "done"
FallThrough(a, n) == IF a < max_retries THEN <<>> ELSE <<"None", n>>

\* lines 70-71 and 47: wrapper calls _wrap_call, which enters its loop
WrapCall(t) ==
    /\ wpc[t] = "idle"
    /\ wpc' = [wpc EXCEPT ![t] = NextAttempt(0)]
    /\ outcome' = [outcome EXCEPT ![t] = FallThrough(0, 0)]
    /\ UNCHANGED <<semaphore, rate_lock, attempt, permits, trace>>

\* line 48: semaphore.acquire() blocks while no permit is left
Acquire(t) ==
    /\ wpc[t] = "acquire" /\ semaphore > 0
    /\ semaphore' = semaphore - 1
    /\ permits' = [permits EXCEPT ![t] = @ + 1]
    /\ wpc' = [wpc EXCEPT ![t] = "rate_lock"]
    /\ UNCHANGED <<rate_lock, attempt, trace, outcome>>

\* lines 50 and 36: _rate_limit waits for _rate_lock
RateLimitEnter(t) ==
    /\ wpc[t] = "rate_lock" /\ rate_lock = 0
    /\ rate_lock' = t
    /\ wpc' = [wpc EXCEPT ![t] = "rate_limit"]
    /\ UNCHANGED <<semaphore, attempt, permits, trace, outcome>>

\* lines 37-44: the body of _rate_limit, then the lock is released
RateLimitExit(t) ==
    /\ wpc[t] = "rate_limit"
    /\ rate_lock' = 0
    /\ wpc' = [wpc EXCEPT ![t] = "func"]
    /\ UNCHANGED <<semaphore, attempt, permits, trace, outcome>>

\* lines 51-59: the wrapped function is invoked
Func(t) ==
    /\ wpc[t] = "func"
    /\ \E res \in FuncResults :
          /\ trace' = [trace EXCEPT ![t] = Append(@, res)]
          /\ wpc' = [wpc EXCEPT ![t] =
                        IF res = "ok" THEN "return"
                        ELSE IF res = "ClientError" /\ AttemptsRemain(attempt[t])
                             THEN "sleep" ELSE "raise"]
    /\ UNCHANGED <<semaphore, rate_lock, attempt, permits, outcome>>

\* lines 54-56: time.sleep(backoff), inside the try block
Backoff(t) ==
    /\ wpc[t] = "sleep"
    /\ wpc' = [wpc EXCEPT ![t] = "retry"]
    /\ UNCHANGED <<semaphore, rate_lock, attempt, permits, trace, outcome>>

\* lines 60-61, and what follows the try statement
Finally(t) ==
    /\ wpc[t] \in {"return", "raise", "retry"}
    /\ IF FinallyReleases(wpc[t])
       THEN /\ semaphore' = semaphore + 1
            /\ permits' = [permits EXCEPT ![t] = @ - 1]
       ELSE UNCHANGED <<semaphore, permits>>
    /\ IF wpc[t] = "retry"
       THEN /\ attempt' = [attempt EXCEPT ![t] = @ + 1]
            /\ wpc' = [wpc EXCEPT ![t] = NextAttempt(attempt[t] + 1)]
            /\ outcome' = [outcome EXCEPT ![t] =
                              FallThrough(attempt[t] + 1, Len(trace[t]))]
       ELSE /\ outcome' = [outcome EXCEPT ![t] = <<wpc[t], Len(trace[t])>>]
            /\ wpc' = [wpc EXCEPT ![t] = "done"]
            /\ UNCHANGED attempt
    /\ UNCHANGED <<rate_lock, trace>>

ThreadStep(t) ==
    \/ WrapCall(t) \/ Acquire(t) \/ RateLimitEnter(t) \/ RateLimitExit(t)
    \/ Func(t) \/ Backoff(t) \/ Finally(t)

\* a step of the client leaves the other modules alone
BesideClient == UNCHANGED <<bridgeVars, pipeVars>>

NextClient ==
    \E t \in Threads :
        \/ WrapCall(t) /\ BesideClient
        \/ Acquire(t) /\ BesideClient
        \/ RateLimitEnter(t) /\ BesideClient
        \/ RateLimitExit(t) /\ BesideClient
        \/ Func(t) /\ BesideClient
        \/ Backoff(t) /\ BesideClient
        \/ Finally(t) /\ BesideClient

SpecClient == Init /\ [][NextClient]_vars

\* ------------------------------------------------- src/merged_codepipeline.py
\* d[k] = v on a dictionary
SetItem(d, k, v) == [n \in DOMAIN d \cup {k} |-> IF n = k THEN v ELSE d[n]]

\* lines 126-139: the client is built and every trigger is submitted
RunPipelines ==
    /\ mpc = "idle"
    /\ mpc' = "trigger"
    /\ tpc' = [p \in PipelineNames |-> "submitted"]
    /\ execution_map' = <<>>
    /\ UNCHANGED <<tret, abort_event, ppc, hist, late, pret, results>>

\* lines 77-85, in a worker of the first pool: the execution id, or None when
\* start_pipeline_execution raised or answered without an id
TriggerPipeline(p) ==
    /\ tpc[p] = "submitted"
    /\ \E execution_id \in {NoId, ExecutionId(p)} :
            tret' = [tret EXCEPT ![p] = execution_id]
    /\ tpc' = [tpc EXCEPT ![p] = "done"]
    /\ UNCHANGED <<mpc, execution_map, abort_event, ppc, hist, late, pret, results>>

\* lines 140-142: as_completed yields a finished trigger
TriggerCompleted(p) ==
    /\ mpc = "trigger"
    /\ tpc[p] = "done"
    /\ p \notin DOMAIN execution_map
    /\ execution_map' = SetItem(execution_map, p, tret[p])
    /\ UNCHANGED <<mpc, tpc, tret, abort_event, ppc, hist, late, pret, results>>

\* lines 148-164: the first pool is left, the abort listener is started and a
\* poll is submitted for every pipeline that has an execution id
StartPolling ==
    /\ mpc = "trigger"
    /\ DOMAIN execution_map = PipelineNames
    /\ mpc' = "poll"
    /\ abort_event' = FALSE
    /\ results' = <<>>
    /\ ppc' = [p \in PipelineNames |->
                  IF execution_map[p] # NoId THEN "entry" ELSE "none"]
    /\ UNCHANGED <<tpc, tret, execution_map, hist, late, pret>>

\* lines 87-89: poll_pipeline_status called by another caller, with any
\* execution ids
DirectPoll ==
    /\ mpc = "idle"
    /\ mpc' = "direct"
    /\ execution_map' \in {[p \in PipelineNames |->
                                IF p \in S THEN ExecutionId(p) ELSE NoId] :
                              S \in SUBSET PipelineNames}
    /\ ppc' = [p \in PipelineNames |-> "entry"]
    /\ UNCHANGED <<tpc, tret, abort_event, hist, late, pret, results>>

\* lines 106-113: the listener sets the event
ListenForAbort ==
    /\ mpc \in {"poll", "shutdown", "direct"}
    /\ ~abort_event
    /\ abort_event' = TRUE
    /\ UNCHANGED <<mpc, tpc, tret, execution_map, ppc, hist, late, pret, results>>

Return(p, status) ==
    /\ ppc' = [ppc EXCEPT ![p] = "returned"]
    /\ pret' = [pret EXCEPT ![p] = status]

\* lines 90-92
PollEntry(p) ==
    /\ ppc[p] = "entry"
    /\ IF execution_map[p] = NoId
          THEN Return(p, "TriggerFailed")
          ELSE ppc' = [ppc EXCEPT ![p] = "test"] /\ UNCHANGED pret
    /\ UNCHANGED <<mpc, tpc, tret, execution_map, abort_event, hist, late, results>>

\* line 93: while not abort_event.is_set()
AbortSeen_Never(is_set) == FALSE
AbortSeen(is_set) == is_set

\* lines 93 and 103
PollTest(p) ==
    /\ ppc[p] = "test"
    /\ IF AbortSeen(abort_event)
          THEN Return(p, "Aborted")
          ELSE ppc' = [ppc EXCEPT ![p] = "clock"] /\ UNCHANGED pret
    /\ UNCHANGED <<mpc, tpc, tret, execution_map, abort_event, hist, late, results>>

\* lines 94-95: the clock has passed the timeout or has not
PollClock(p) ==
    /\ ppc[p] = "clock"
    /\ \E expired \in BOOLEAN :
          IF expired
             THEN Return(p, "TimedOut")
             ELSE ppc' = [ppc EXCEPT ![p] = "query"] /\ UNCHANGED pret
    /\ UNCHANGED <<mpc, tpc, tret, execution_map, abort_event, hist, late, results>>

\* lines 96-99 and 101-102: one status query and what it leads to
PollQuery(p) ==
    /\ ppc[p] = "query"
    /\ Len(hist[p]) < MaxPolls
    /\ \E res \in QueryResults :
          /\ hist' = [hist EXCEPT ![p] = Append(@, res)]
          /\ IF res = "Exception" THEN Return(p, "PollingError")
             ELSE IF res \in TerminalStatuses THEN Return(p, res)
             ELSE ppc' = [ppc EXCEPT ![p] = "sleep"] /\ UNCHANGED pret
    /\ late' = [late EXCEPT ![p] = IF abort_event THEN @ + 1 ELSE @]
    /\ UNCHANGED <<mpc, tpc, tret, execution_map, abort_event, results>>

\* line 100
PollSleep(p) ==
    /\ ppc[p] = "sleep"
    /\ ppc' = [ppc EXCEPT ![p] = "test"]
    /\ UNCHANGED <<mpc, tpc, tret, execution_map, abort_event, hist, late, pret, results>>

PollStep(p) ==
    PollEntry(p) \/ PollTest(p) \/ PollClock(p) \/ PollQuery(p) \/ PollSleep(p)

\* lines 165-171: as_completed yields a finished poll; the loop is left when
\* the event is set
PollCompleted(p) ==
    /\ mpc = "poll"
    /\ ppc[p] = "returned"
    /\ p \notin DOMAIN results
    /\ results' = SetItem(results, p, pret[p])
    /\ mpc' = IF abort_event THEN "shutdown" ELSE "poll"
    /\ UNCHANGED <<tpc, tret, execution_map, abort_event, ppc, hist, late, pret>>

\* line 165: no poll is left to yield
PollExhausted ==
    /\ mpc = "poll"
    /\ \A p \in PipelineNames : ppc[p] # "none" => p \in DOMAIN results
    /\ mpc' = "shutdown"
    /\ UNCHANGED <<tpc, tret, execution_map, abort_event, ppc, hist, late, pret, results>>

\* lines 152 and 172-175: leaving the with block waits for every submitted
\* poll; then the failed triggers are entered and the dictionary is returned
Shutdown ==
    /\ mpc = "shutdown"
    /\ \A p \in PipelineNames : ppc[p] \in {"none", "returned"}
    /\ results' = [p \in DOMAIN results \cup
                         {n \in PipelineNames : execution_map[n] = NoId} |->
                      IF execution_map[p] = NoId THEN "TriggerFailed"
                                                 ELSE results[p]]
    /\ mpc' = "returned"
    /\ UNCHANGED <<tpc, tret, execution_map, abort_event, ppc, hist, late, pret>>

\* a step of run_pipelines leaves the other modules alone
BesidePipeline == UNCHANGED <<bridgeVars, wrapVars>>

NextPipeline ==
    \/ RunPipelines /\ BesidePipeline
    \/ StartPolling /\ BesidePipeline
    \/ DirectPoll /\ BesidePipeline
    \/ ListenForAbort /\ BesidePipeline
    \/ PollExhausted /\ BesidePipeline
    \/ Shutdown /\ BesidePipeline
    \/ \E p \in PipelineNames :
          \/ TriggerPipeline(p) /\ BesidePipeline
          \/ TriggerCompleted(p) /\ BesidePipeline
          \/ PollEntry(p) /\ BesidePipeline
          \/ PollTest(p) /\ BesidePipeline
          \/ PollClock(p) /\ BesidePipeline
          \/ PollQuery(p) /\ BesidePipeline
          \/ PollSleep(p) /\ BesidePipeline
          \/ PollCompleted(p) /\ BesidePipeline

SpecPipeline == Init /\ [][NextPipeline]_vars

\* ================================================================ claims
\* The route of the current session has been decided (lines 106-117 ran).
Parsed == served > 0 /\ pc \notin {"resolve", "parse"}
InRelay == pc \in RelayPcs \/ relayExit # "none"
IsProxyAuth(h) == Lower(h[1]) = "proxy-authorization"

\* C1: when _relay ends on an end-of-file, the bytes written to the upstream
\* are exactly the bytes the client sent and the bytes written to the client
\* are exactly the bytes the upstream sent, bytes already readable in the
\* round of the end-of-file included.
C1_RelayByteExact ==
    relayExit = "eof" =>
        /\ upData = ClientStream(cSent)
        /\ clData = UpstreamStream(uSent)

\* C2: once the tunnel or forwarding channel is established (200 sent for
\* CONNECT, request forwarded otherwise) the handler writes no further
\* response of its own to the client.
C2_NoErrorAfterEstablished ==
    /\ (request.command = "CONNECT" /\ clResp # <<>> /\ clResp[1] = 200)
          => clResp = <<200>>
    /\ (request.command \notin {"", "CONNECT"} /\ upReqs # <<>>)
          => clResp = <<>>

\* C3: a terminated session that opened an upstream socket has closed both
\* its client socket and its upstream socket.
C3_SocketsClosedAtTermination ==
    (pc = "accept" /\ served > 0 /\ upstream # "none")
        => (connection = "closed" /\ upstream = "closed")

\* C4: while a session is blocked in resolve, connect, the auth call, the
\* wait for the CONNECT reply or relay, the accept loop can accept a waiting
\* second connection.
C4_AcceptWhileSessionBlocked ==
    (pc \in {"resolve", "connect", "auth", "recv_reply", "select", "recv"} /\ backlog > 0)
        => ENABLED Accept

\* C5: a CONNECT through a proxy whose reply is not a success ends with a 502
\* to the client, never enters relay, and has sent one CONNECT request and
\* called get_kerberos_token once.
C5_FailedConnectIsTerminal ==
    (Parsed /\ request.command = "CONNECT" /\ ~is_direct
        /\ resp # <<>> /\ resp = reply /\ StatusOf(reply) # <<2, 0, 0>>)
        => /\ clResp = <<502>>
           /\ ~InRelay /\ pc # "send_200"
           /\ Len(upReqs) = 1
           /\ authCalls = 1

\* C6: a CONNECT routed DIRECT dials the host and port of the request target,
\* sends nothing of its own to the upstream, answers 200 once connected and
\* then relays.
C6_DirectConnect ==
    (Parsed /\ request.command = "CONNECT" /\ is_direct) =>
        /\ dialed # <<>> =>
              /\ Len(request.path) = 3
              /\ dialed = << <<request.path[1]>>, NumeralValue(request.path[3]) >>
        /\ upReqs = <<>>
        /\ upstream # "none" => (pc = "send_200" \/ (clResp # <<>> /\ clResp[1] = 200))
        /\ InRelay <=> (clResp # <<>> /\ clResp[1] = 200)
        /\ InRelay => upstream # "none"
C6_Witness ==
    /\ request.command = "CONNECT" /\ is_direct /\ pc = "select"
    /\ clResp = <<200>> /\ dialed = << <<"h">>, 443 >> /\ upReqs = <<>>

\* C7: a session routed DIRECT never calls get_kerberos_token and sends no
\* Proxy-Authorization header upstream.
C7_DirectNoAuth ==
    (Parsed /\ is_direct) =>
        /\ authCalls = 0
        /\ \A i \in 1..Len(upReqs) :
              \A j \in 1..Len(upReqs[i].headers) : ~IsProxyAuth(upReqs[i].headers[j])
C7_Witness ==
    /\ is_direct /\ request.command = "GET" /\ pc = "select" /\ Len(upReqs) = 1
    /\ \E j \in 1..Len(request.headers) : IsProxyAuth(request.headers[j])

\* C8: the CONNECT request sent to a proxy carries exactly one
\* Proxy-Authorization: Negotiate <token> header when get_kerberos_token
\* returned a token and none when it returned None, and in the None case the
\* request is still sent.
C8_ConnectAuthHeader ==
    (Parsed /\ request.command = "CONNECT" /\ ~is_direct) =>
        /\ Len(upReqs) <= 1
        /\ upReqs # <<>> =>
              /\ upReqs[1].method = "CONNECT"
              /\ authCalls = 1
              /\ Truthy(auth) =>
                    /\ SelectSeq(upReqs[1].headers, IsProxyAuth)
                          = << <<"Proxy-Authorization", auth>> >>
                    /\ Len(auth) = 2 /\ auth[1] = "Negotiate" /\ auth[2] \in Tokens
              /\ ~Truthy(auth) => SelectSeq(upReqs[1].headers, IsProxyAuth) = <<>>
        /\ (authCalls = 1 /\ ~Truthy(auth))
              => (pc = "send_connect" \/ Len(upReqs) = 1 \/ uReset)
C8_Witness ==
    /\ request.command = "CONNECT" /\ ~is_direct /\ pc = "recv_reply"
    /\ authCalls = 1 /\ ~Truthy(auth) /\ Len(upReqs) = 1

\* C9: a malformed resolver result (a non-numeric port) makes the session
\* proceed as DIRECT, and no exception leaves handle_request.
C9_ResolverFailureDegrades ==
    /\ ~escaped
    /\ (Parsed /\ ProxyPortRaises(proxy_res)) => is_direct

\* C10: resolve_proxy returns DIRECT when there is no PAC URL, auto-detect is
\* off and no static proxy is set.
C10_NoConfigIsDirect ==
    (rs.called /\ ~Truthy(rs.ie_config.lpszAutoConfigUrl) /\ ~rs.ie_config.fAutoDetect
        /\ ~Truthy(rs.ie_config.lpszProxy))
        => rs.result = DIRECT
C10_Witness ==
    /\ rs.called /\ ~Truthy(rs.ie_config.lpszAutoConfigUrl) /\ ~rs.ie_config.fAutoDetect
    /\ ~Truthy(rs.ie_config.lpszProxy) /\ \A f \in AutoProxyFlags : rs.info[f].ok /\ Truthy(rs.info[f].lpszProxy)
    /\ rs.result = DIRECT

\* The destination a request names: the CONNECT target, the authority of an
\* absolute URI, or the Host header of an origin-form request.
RequestDestination(req) ==
    IF req.command = "CONNECT"
    THEN << <<req.path[1]>>, NumeralValue(req.path[3]) >>
    ELSE IF StartsWithHttp(req.path)
         THEN << <<req.path[2]>>,
                 IF req.path[3] = ":" THEN NumeralValue(req.path[4]) ELSE 80 >>
         ELSE << <<"h">>, 80 >>

\* C11: on a route through a proxy the address dialed has a non-empty host
\* without a scheme prefix and a port in 1..65535; on a DIRECT route it is the
\* host and port of the request's destination.
C11_DialedAddressWellFormed ==
    (Parsed /\ dialed # <<>>) =>
        IF is_direct
        THEN dialed = RequestDestination(request)
        ELSE /\ dialed[1] # <<>>
             /\ dialed[1][1] \notin Schemes
             /\ dialed[2] \in 1..65535

\* The client's headers other than Proxy-Authorization and Proxy-Connection.
IsHopHeader(h) ==
    h[1] \in {"Proxy-Authorization", "PROXY-AUTHORIZATION", "proxy-authorization",
              "Proxy-Connection", "PROXY-CONNECTION", "proxy-connection"}
EndToEndHeaders(req) == SelectSeq(req.headers, LAMBDA h : ~IsHopHeader(h))

\* C12: the header block forwarded for a non-CONNECT request is the client's
\* headers without Proxy-Authorization and Proxy-Connection, each once and in
\* the client's order, followed by at most one Proxy-Authorization header,
\* the one get_kerberos_token produced in this session.
C12_ForwardedHeaders ==
    (Parsed /\ request.command # "CONNECT" /\ upReqs # <<>>) =>
        LET hs == upReqs[1].headers
            n  == Len(EndToEndHeaders(request))
        IN  /\ Len(upReqs) = 1
            /\ Len(hs) >= n
            /\ SubSeq(hs, 1, n) = EndToEndHeaders(request)
            /\ SubSeq(hs, n + 1, Len(hs))
                  = (IF Truthy(auth) THEN << <<"Proxy-Authorization", auth>> >> ELSE <<>>)
            /\ Truthy(auth) =>
                  (authCalls = 1 /\ auth[1] = "Negotiate" /\ auth[2] \in Tokens)
C12_Witness ==
    /\ request.command = "GET" /\ ~is_direct /\ pc = "select" /\ Truthy(auth)
    /\ Len(upReqs) = 1 /\ Len(upReqs[1].headers) = 3
    /\ \E j \in 1..Len(request.headers) : request.headers[j][1] = "Proxy-Connection"

\* C13: the request line forwarded for a non-CONNECT request has an
\* absolute-URI target, whatever form the client's target had.
C13_AbsoluteUriForwarded ==
    \A i \in 1..Len(upReqs) :
        upReqs[i].method # "CONNECT" =>
            /\ StartsWithHttp(upReqs[i].target)
            /\ Len(upReqs[i].target) >= 2
            /\ upReqs[i].target[2] \notin {"/", ":"}

\* C14: a relay that ended by the idle timeout leaves a terminated session
\* whose client and upstream sockets are both closed.
C14_IdleTimeoutClosesBoth ==
    (relayExit = "timeout" /\ pc = "accept")
        => (connection = "closed" /\ upstream = "closed")

\* C16: on a CONNECT through a proxy the client is sent 200 and relay is
\* entered only if the status of the proxy's reply is 200.
C16_SuccessOnlyOnStatus200 ==
    (Parsed /\ request.command = "CONNECT" /\ ~is_direct
        /\ (InRelay \/ pc = "send_200" \/ (clResp # <<>> /\ clResp[1] = 200)))
        => (reply # <<>> /\ StatusOf(reply) = <<2, 0, 0>>)

\* C15: when InitializeSecurityContextW reports a provider fault the session
\* ends with a 502 to the client and nothing is sent upstream.
C15_AuthFaultIsGatewayError ==
    (isc # <<>> /\ isc[1] \notin {SEC_E_OK, SEC_I_CONTINUE_NEEDED}) =>
        /\ pc \in {"return", "accept"}
        /\ clResp = <<502>>
        /\ upReqs = <<>>

\* C17: the negotiation runs at most three rounds and does not stop before
\* the third while the last status is SEC_I_CONTINUE_NEEDED.
C17_NegotiationContinues ==
    /\ Len(isc) <= 3
    /\ (isc # <<>> /\ pc # "auth" /\ isc[Len(isc)] = SEC_I_CONTINUE_NEEDED)
          => Len(isc) = 3

\* C18: every accepted session eventually terminates.
C18_SessionTerminates == (pc # "accept") ~> (pc = "accept")

\* C20: on one accepted connection the handler handles at most one request,
\* calls resolve_proxy at most once and opens at most one upstream socket,
\* whatever the request's version and Connection header.
C20_OneSessionPerConnection ==
    handled <= 1 /\ resolveCalls <= 1 /\ opened <= 1
C20_Witness ==
    /\ pc = "accept" /\ served > 0
    /\ request.request_version = "HTTP/1.1"
    /\ ConnectionHeader(request) = <<"keep-alive">>
    /\ relayExit = "timeout" /\ clResp = <<>> /\ ~escaped
    /\ handled = 1 /\ resolveCalls = 1 /\ opened = 1

\* The Negotiate tokens of the Proxy-Authorization headers written upstream
\* in this session.
SentTokens ==
    {upReqs[i].headers[j][2][2] :
        <<i, j>> \in {x \in (1..Len(upReqs)) \X (1..3) :
                        /\ x[2] <= Len(upReqs[x[1]].headers)
                        /\ upReqs[x[1]].headers[x[2]][1] = "Proxy-Authorization"
                        /\ Len(upReqs[x[1]].headers[x[2]][2]) = 2
                        /\ upReqs[x[1]].headers[x[2]][2][1] = "Negotiate"}}

\* C21 as stated: every terminated session that was routed through a proxy
\* and tried to connect has called get_kerberos_token exactly once.
C21_EveryProxySessionAuthenticates ==
    (pc = "accept" /\ served > 0 /\ ~is_direct /\ dialed # <<>>) => authCalls = 1

\* C21, amended: get_kerberos_token is called at most once in a session and
\* only after the session's upstream socket is connected; every session
\* routed through a proxy whose upstream socket was connected calls it exactly
\* once; and every token written upstream is the token of the security context
\* initialised in this session, never that of an earlier one.
C21_FreshTokenPerConnection ==
    /\ authCalls <= 1
    /\ authCalls = Len(isc)
    /\ authCalls = 1 => (opened = 1 /\ ~is_direct)
    /\ (Parsed /\ ~is_direct /\ opened = 1 /\ pc # "auth") => authCalls = 1
    /\ SentTokens # {} => (authCalls = 1 /\ SentTokens = {TokenOf(served)})
C21_Witness ==
    /\ served = 2 /\ ~is_direct
    /\ SentTokens = {TokenOf(2)} /\ pc = "select"

\* C22: the zero-length read that ends _relay writes nothing, and after it
\* _relay has returned: no byte is read from or written to either socket any
\* more in this session.
C22_ZeroReadEndsRelay ==
    [][ /\ (relayExit # "eof" /\ relayExit' = "eof") => UNCHANGED <<upData, clData>>
        /\ relayExit = "eof" =>
              /\ pc \in {"return", "accept"}
              /\ relayExit' = "eof" => UNCHANGED <<upData, clData, cIn, uIn>> ]_vars
C22_Witness ==
    /\ relayExit = "eof" /\ pc = "return"
    /\ cEof /\ cIn = <<>> /\ uIn # <<>>

\* C23: when create_connection fails the client gets exactly one 502, the
\* connect is not tried again, get_kerberos_token is not called, nothing is
\* written upstream, no 200 is sent and the session ends without a relay.
C23_ConnectFailureIsTerminal ==
    /\ dials <= 1
    /\ (dials = 1 /\ opened = 0) =>
          /\ clResp = <<502>>
          /\ authCalls = 0 /\ isc = <<>>
          /\ upReqs = <<>>
          /\ relayExit = "none" /\ upData = <<>> /\ clData = <<>>
          /\ pc \in {"return", "accept"}
          /\ upstream = "none"
C23_Witness ==
    /\ dials = 1 /\ opened = 0 /\ ~is_direct /\ request.command = "CONNECT"
    /\ pc = "accept" /\ connection = "closed" /\ clResp = <<502>>

\* C24: in a CONNECT session the client has been sent 200 only if the
\* session's upstream socket was connected and is open, and, on a route
\* through a proxy, only if the CONNECT request was sent and a reply to it
\* was read.
C24_Sent200ImpliesUpstream ==
    (request.command = "CONNECT" /\ pc # "accept"
        /\ \E i \in 1..Len(clResp) : clResp[i] = 200) =>
        /\ upstream = "open" /\ opened = 1 /\ dialed # <<>>
        /\ ~is_direct => (Len(upReqs) = 1 /\ reply # <<>> /\ resp # <<>>)
C24_Witness ==
    /\ request.command = "CONNECT" /\ ~is_direct /\ pc = "select"
    /\ clResp = <<200>> /\ upstream = "open" /\ resp = <<2, 0, 0>>

\* C25: in a CONNECT session through a proxy every tunnel byte the upstream
\* sent is delivered to the client or still unread whenever _relay waits in
\* select, and a reply whose status is 200 is taken as success once the
\* handler has read from it.
C25_ReplyBoundaryRespected ==
    (Parsed /\ request.command = "CONNECT" /\ ~is_direct) =>
        /\ pc = "select" => clData \o uIn = UpstreamStream(uSent)
        /\ (reply # <<>> /\ StatusOf(reply) = <<2, 0, 0>> /\ resp # <<>>)
              => (pc = "send_200" \/ (clResp # <<>> /\ clResp[1] = 200))

\* C26: for a non-CONNECT request, whenever _relay waits in select every
\* byte the client sent after the header block has been written upstream, in
\* order, or is still unread on the client socket.
C26_BodyReachesUpstream ==
    (Parsed /\ request.command # "CONNECT" /\ pc = "select") =>
        /\ Len(upReqs) = 1
        /\ upData \o cIn = ClientStream(cSent)

\* C27: the permits held never exceed max_concurrent_requests, every permit
\* is held by the thread that acquired it until it is released once, so that
\* the semaphore is back at its initial value when no call is running; and
\* at most one thread is inside _rate_limit.
RECURSIVE SumPermits(_)
SumPermits(n) == IF n = 0 THEN 0 ELSE permits[n] + SumPermits(n - 1)
InTry(t) == wpc[t] \in {"rate_lock", "rate_limit", "func", "sleep",
                         "return", "raise", "retry"}
C27_PermitsAndLock ==
    /\ semaphore >= 0
    /\ SumPermits(NumThreads) <= max_concurrent_requests
    /\ semaphore + SumPermits(NumThreads) = max_concurrent_requests
    /\ \A t \in Threads : permits[t] = (IF InTry(t) THEN 1 ELSE 0)
    /\ Cardinality({t \in Threads : wpc[t] = "rate_limit"}) <= 1
    /\ \A t \in Threads : wpc[t] = "rate_limit" <=> rate_lock = t
    /\ (\A t \in Threads : wpc[t] = "done") => semaphore = max_concurrent_requests
C27_Witness ==
    /\ \A t \in Threads : wpc[t] = "done"
    /\ \E t \in Threads : outcome[t][1] = "raise" /\ trace[t][Len(trace[t])] = "ClientError"
    /\ \E t \in Threads : outcome[t][1] = "raise" /\ trace[t][Len(trace[t])] = "Exception"
    /\ semaphore = max_concurrent_requests

\* C28: one _wrap_call invokes the function at most max_retries times; every
\* invocation but the last raised ClientError; the call returns the result of
\* an invocation that did not raise, or raises the exception of its last
\* invocation, a ClientError only when no attempt remains; and while a call
\* has not ended some thread can take its next step, so none waits for ever.
C28_RetryBoundedAndEnds ==
    /\ (\E t \in Threads : wpc[t] # "done") => ENABLED NextClient
    /\ \A t \in Threads :
        /\ Len(trace[t]) <= max_retries
        /\ \A i \in 1..(Len(trace[t]) - 1) : trace[t][i] = "ClientError"
        /\ wpc[t] = "done" =>
              /\ Len(trace[t]) >= 1
              /\ outcome[t][2] = Len(trace[t])
              /\ outcome[t][1] \in {"return", "raise"}
              /\ outcome[t][1] = "return" <=> trace[t][Len(trace[t])] = "ok"
              /\ trace[t][Len(trace[t])] = "ClientError" => Len(trace[t]) = max_retries
C28_Witness ==
    \E t \in Threads :
        /\ wpc[t] = "done" /\ outcome[t] = <<"return", max_retries>>
        /\ trace[t][1] = "ClientError"

\* ---------------------------------------------------------------- C29
PollStatuses == TerminalStatuses \cup {"TriggerFailed", "TimedOut", "Aborted", "PollingError"}
LastQuery(p) == hist[p][Len(hist[p])]

\* C29 as stated: once abort_event is set, no poll makes a status query any
\* more, and a poll of an execution that returns from then on returns Aborted.
C29_NoQueryOnceAborted ==
    [][\A p \in PipelineNames :
          abort_event =>
             /\ hist'[p] = hist[p]
             /\ (execution_map[p] # NoId /\ ppc[p] # "returned" /\ ppc'[p] = "returned")
                   => pret'[p] = "Aborted"]_vars

\* C29, amended: a poll returns one of the seven kinds of status.  With an
\* empty execution id it returns TriggerFailed and makes no query.  Every
\* query before the last one reported a non-terminal status, a terminal
\* status or an exception ends the poll at once with that status or with
\* PollingError, and Aborted is returned only when the event is set and no
\* query ended the poll.  A poll that finds the event set at the head of its
\* loop can only return Aborted, so that it makes at most one query after the
\* event was set: the one whose loop test came before.
C29_PollReturnsAndStops ==
    \A p \in PipelineNames :
        /\ pret[p] \in PollStatuses \cup {""}
        /\ ppc[p] = "returned" <=> pret[p] # ""
        /\ (ppc[p] # "none" /\ execution_map[p] = NoId) =>
              /\ hist[p] = <<>>
              /\ ppc[p] \in {"entry", "returned"}
              /\ ppc[p] = "returned" => pret[p] = "TriggerFailed"
        /\ pret[p] = "TriggerFailed" => execution_map[p] = NoId
        /\ \A i \in 1..(Len(hist[p]) - 1) : hist[p][i] = "InProgress"
        /\ hist[p] # <<>> =>
              /\ LastQuery(p) \in TerminalStatuses => pret[p] = LastQuery(p)
              /\ LastQuery(p) = "Exception" => pret[p] = "PollingError"
              /\ LastQuery(p) = "InProgress" => pret[p] \in {"", "Aborted", "TimedOut"}
        /\ hist[p] = <<>> => pret[p] \in {"", "TriggerFailed", "Aborted", "TimedOut"}
        /\ pret[p] = "Aborted" => abort_event
        /\ (abort_event /\ ppc[p] = "test") =>
              /\ ENABLED PollStep(p)
              /\ ~ENABLED (PollStep(p) /\ pret'[p] # "Aborted")
        /\ late[p] <= 1

C29_Witness ==
    \E p, q \in PipelineNames :
        /\ pret[p] = "Aborted" /\ late[p] = 1 /\ Len(hist[p]) = 1
        /\ pret[q] = "TriggerFailed"

\* ---------------------------------------------------------------- C30
\* C30: the dictionary run_pipelines returns has an entry for every pipeline
\* name and no other: TriggerFailed for a pipeline whose trigger failed, the
\* status its poll returned for every other.
C30_OneEntryPerName ==
    mpc = "returned" =>
        /\ DOMAIN results = PipelineNames
        /\ \A p \in PipelineNames :
              results[p] = IF execution_map[p] = NoId THEN "TriggerFailed" ELSE pret[p]

\* The source resolve_proxy selects and what it yields: the PAC evaluation if
\* a PAC URL is configured, else WPAD discovery if auto-detect is on, else
\* the static proxy string.
SelectedSource(c, w) ==
    IF c.lpszAutoConfigUrl # <<>> THEN w[WINHTTP_AUTOPROXY_CONFIG_URL]
    ELSE IF c.fAutoDetect THEN w[WINHTTP_AUTOPROXY_AUTO_DETECT]
    ELSE [ok |-> TRUE, lpszProxy |-> c.lpszProxy]
FirstEntry(list) ==
    IF \E i \in 1..Len(list) : list[i] = ";"
    THEN SubSeq(list, 1, (CHOOSE i \in 1..Len(list) :
                            list[i] = ";" /\ \A j \in 1..(i - 1) : list[j] # ";") - 1)
    ELSE list

\* C19: resolve_proxy uses the PAC evaluation alone if a PAC URL is
\* configured, else WPAD discovery alone if auto-detect is on, else the static
\* proxy string; its result is the first entry of the selected source's
\* semicolon-delimited list, and DIRECT if that source fails or is empty.
C19_PriorityOrder ==
    rs.called =>
        LET sel == SelectedSource(rs.ie_config, rs.info)
        IN  rs.result = (IF sel.ok /\ sel.lpszProxy # <<>>
                         THEN FirstEntry(sel.lpszProxy) ELSE DIRECT)
C19_Witness ==
    /\ rs.called
    /\ rs.ie_config.lpszAutoConfigUrl # <<>> /\ rs.ie_config.fAutoDetect
    /\ rs.ie_config.lpszProxy = <<"p">>
    /\ rs.info[WINHTTP_AUTOPROXY_CONFIG_URL].ok
    /\ rs.info[WINHTTP_AUTOPROXY_CONFIG_URL].lpszProxy
          = <<"p", ":", "8080", ";", "q", ":", "8080">>
    /\ rs.info[WINHTTP_AUTOPROXY_AUTO_DETECT].ok
    /\ rs.info[WINHTTP_AUTOPROXY_AUTO_DETECT].lpszProxy = <<"p", ":", "0">>
    /\ rs.result = <<"p", ":", "8080">>

====
